---- MODULE Spec2Model ----
(***************************************************************************)
(* A model of the static-analysis + scaffold-synthesis pipeline of         *)
(* code2project: analyzeDependencies (the reference analyzer) and          *)
(* generateProjectZip (the scaffold generator), the App component that     *)
(* calls them, and of three helpers of the repository: retryRequest,       *)
(* the CacheManager behind getCached, and debounce.  Each has its own      *)
(* specification, under which the others stand still.                      *)
(*                                                                         *)
(* Text is modelled as TLA+ strings, character by character: Len, \o and   *)
(* SubSeq act on strings as they do on sequences.  Indices are the 0-based *)
(* indices of the JavaScript source (lastIndex, match.index).  The scans   *)
(* over a text are recursive functions of the text and an index, so that   *)
(* each step is applied to values.                                         *)
(***************************************************************************)
EXTENDS Integers, Sequences, FiniteSets, TLC

VARIABLES
    code,           \* analyzeDependencies: the source text under analysis
    pc,             \* analyzeDependencies: position in the function body
    lastIndex,      \* lastIndex of the regex of the loop being run
    dependencies,   \* Set<string> in insertion order
    localImports,   \* Set<string> in insertion order
    log,            \* history: every regex match handed to processPath
    config,         \* generateProjectZip: its GeneratedProjectConfig argument
    fileType,       \* generateProjectZip: its FileType argument
    gpc,            \* generateProjectZip: position in the function body
    packageJson,    \* the manifest object
    files,          \* zip.files: file name -> content
    ghostIndex,     \* config.localImports.forEach: entries already visited
    written,        \* history: the name of every file() call, in order
    blob,           \* the archive the last call resolved to, NoBlob before that
    ui,             \* App: the React state of the component
    run,            \* App: the handleGenerate invocation, where it stands
    reading,        \* App: the files handleFileChange awaits the text of
    lastCall,       \* history: the arguments of the last generateProjectZip call
    rpc,            \* retryRequest: position in the function body
    maxRetries,     \* retryRequest: its parameter
    initialDelay,   \* retryRequest: its parameter
    attempt,        \* retryRequest: the loop variable
    delay,          \* retryRequest: the next wait
    lastError,      \* retryRequest: the error caught last
    trace,          \* history: the requestFn calls and the waits, in order
    cache,          \* CacheManager: this.cache, key -> {data, timestamp}
    now,            \* Date.now()
    pending,        \* getCached: the invocations that await get()
    served,         \* history: what the last getCached did and returned
    wait,           \* debounce: its parameter
    timeout,        \* debounce: the closure's variable, the id of a timer
    timers,         \* the timers set and neither fired nor cleared
    elapsed,        \* debounce: the time since the debounced function was made
    events          \* history: the calls and the invocations of func, in order

avars == <<code, pc, lastIndex, dependencies, localImports, log>>

gvars == <<config, fileType, gpc, packageJson, files, ghostIndex, written,
           blob>>

uvars == <<ui, run, reading, lastCall>>

rvars == <<rpc, maxRetries, initialDelay, attempt, delay, lastError, trace>>

cvars == <<cache, now, pending, served>>

dvars == <<wait, timeout, timers, elapsed, events>>

\* the variables of everything but the analyzer and the generator
xvars == <<uvars, rvars, cvars, dvars>>

vars == <<avars, gvars, xvars>>

\* ------------------------------------------------------------------ bounds

\* The largest maxRetries retryRequest is called with.
RetryLimit == 3

\* How far the clock of the cache runs, in steps of half a ttl.
MaxTicks == 4

\* The number of calls made to a debounced function, the time they span in
\* ms, and the largest wait.
MaxCalls == 3
MaxTime == 4
MaxWait == 2

\* The number of fragments an analysed text is put together from.
MaxChunks == 2

\* The length of config.localImports.
MaxImports == 2

\* ----------------------------------------------------------- string helpers

\* code[k], "" past the end (0-based)
CharAt(s, k) == IF k >= 0 /\ k < Len(s) THEN SubSeq(s, k + 1, k + 1) ELSE ""

\* s.slice(a, b)
Slice(s, a, b) == SubSeq(s, a + 1, b)

\* s.startsWith(lit, k)
StartsWithAt(s, k, lit) ==
    /\ k + Len(lit) <= Len(s)
    /\ SubSeq(s, k + 1, k + Len(lit)) = lit

startsWith(s, lit) == StartsWithAt(s, 0, lit)

IncludesFrom[s \in STRING, lit \in STRING, k \in Nat] ==
    IF k + Len(lit) > Len(s) THEN FALSE
    ELSE IF StartsWithAt(s, k, lit) THEN TRUE
    ELSE IncludesFrom[s, lit, k + 1]

\* s.includes(lit)
includes(s, lit) == IncludesFrom[s, lit, 0]

\* the regex class \s (the characters of it the model's texts use)
IsSpace(c) == c \in {" ", "\t", "\n", "\r"}

\* what the regex atom . does not match
IsLineTerminator(c) == c \in {"\n", "\r"}

\* the regex class ['"]
IsQuote(c) == c \in {"'", "\""}

\* \s* from k, greedy: the index of the first character that is not \s
SkipSpace[s \in STRING, k \in Nat] ==
    IF k < Len(s) /\ IsSpace(CharAt(s, k)) THEN SkipSpace[s, k + 1] ELSE k

\* [^'"]* from k, greedy: the index of the next quote, Len(s) if there is none
NextQuote[s \in STRING, k \in Nat] ==
    IF k < Len(s) /\ ~IsQuote(CharAt(s, k)) THEN NextQuote[s, k + 1] ELSE k

\* s.indexOf(c, k) for one character c, Len(s) if there is none
IndexOf[s \in STRING, c \in STRING, k \in Nat] ==
    IF k < Len(s) /\ CharAt(s, k) # c THEN IndexOf[s, c, k + 1] ELSE k

\* the pieces of s.split(sep) that start at or after index k
SplitFrom[s \in STRING, sep \in STRING, k \in Nat] ==
    LET hit == IndexOf[s, sep, k]
    IN IF hit >= Len(s) THEN <<Slice(s, k, Len(s))>>
       ELSE <<Slice(s, k, hit)>> \o SplitFrom[s, sep, hit + 1]

\* s.split(sep), sep one character
split(s, sep) == SplitFrom[s, sep, 0]

Range(seq) == {seq[i] : i \in 1..Len(seq)}

\* ------------------------------------------------------------ regex engine

NoMatch == [found |-> FALSE, index |-> 0, end |-> 0, path |-> ""]

\* ['"]([^'"]+)['"] anchored at q: the quoted, non-empty capture group and
\* the index after the closing quote.  Either quote character closes.
QuotedAt(s, q) ==
    LET e == NextQuote[s, q + 1]
    IN IF IsQuote(CharAt(s, q)) /\ e > q + 1 /\ e < Len(s)
       THEN [found |-> TRUE, index |-> q, end |-> e + 1,
             path |-> Slice(s, q + 1, e)]
       ELSE NoMatch

\* .*?from\s*['"]([^'"]+)['"] anchored at j: the lazy .*? takes the fewest
\* characters, none of them a line terminator, after which the rest matches
LazyFrom[s \in STRING, j \in Nat] ==
    LET q == QuotedAt(s, SkipSpace[s, j + 4])
    IN IF StartsWithAt(s, j, "from") /\ q.found THEN q
       ELSE IF j < Len(s) /\ ~IsLineTerminator(CharAt(s, j))
       THEN LazyFrom[s, j + 1]
       ELSE NoMatch

\* /(?:import|require)\s*(?:\(\s*|.*?from\s*)['"]([^'"]+)['"]/ anchored at k
importRegexAt(s, k) ==
    LET kw == IF StartsWithAt(s, k, "import") THEN 6
              ELSE IF StartsWithAt(s, k, "require") THEN 7 ELSE 0
        p == SkipSpace[s, k + kw]
        call == IF CharAt(s, p) = "(" THEN QuotedAt(s, SkipSpace[s, p + 1])
                ELSE NoMatch
        m == IF call.found THEN call ELSE LazyFrom[s, p]
    IN IF kw > 0 /\ m.found THEN [m EXCEPT !.index = k] ELSE NoMatch

\* /import\s+['"]([^'"]+)['"]/ anchored at k
sideEffectImportRegexAt(s, k) ==
    LET p == SkipSpace[s, k + 6]
        m == QuotedAt(s, p)
    IN IF StartsWithAt(s, k, "import") /\ p > k + 6 /\ m.found
       THEN [m EXCEPT !.index = k] ELSE NoMatch

\* the leftmost match of importRegex that starts at or after k
importRegexSearch[s \in STRING, k \in Nat] ==
    IF k > Len(s) THEN NoMatch
    ELSE IF importRegexAt(s, k).found THEN importRegexAt(s, k)
    ELSE importRegexSearch[s, k + 1]

\* the leftmost match of sideEffectImportRegex that starts at or after k
sideEffectImportRegexSearch[s \in STRING, k \in Nat] ==
    IF k > Len(s) THEN NoMatch
    ELSE IF sideEffectImportRegexAt(s, k).found
    THEN sideEffectImportRegexAt(s, k)
    ELSE sideEffectImportRegexSearch[s, k + 1]

\* importRegex.exec(code) without the g flag: the search restarts at 0
importRegexExecNotGlobal(s, k) == importRegexSearch[s, 0]

\* importRegex.exec(code): the regex is global, the search starts at lastIndex
importRegexExec(s, k) == importRegexSearch[s, k]

\* sideEffectImportRegex.exec(code), global as well
sideEffectImportRegexExec(s, k) == sideEffectImportRegexSearch[s, k]

\* ------------------------------------------------------ Set<string> in order

\* Array.prototype.push in place of Set.prototype.add: no membership test
SetAddPush(set, x) == Append(set, x)

\* Set.prototype.add: insertion order, an element already present stays put
SetAdd(set, x) == IF x \in Range(set) THEN set ELSE Append(set, x)

\* Set.prototype.delete
SetDelete(set, x) == SelectSeq(set, LAMBDA e : e # x)

\* ------------------------------------------------------ analyzeDependencies

\* null, as cleanPackageName returns it; its caller tests `if (pkg)`, which
\* takes null and the empty string alike
null == ""

\* cleanPackageName without the split of an unscoped name
cleanPackageNameScopedOnly(name) ==
    IF name = "" THEN null
    ELSE IF startsWith(name, ".") \/ startsWith(name, "/") THEN null
    ELSE IF startsWith(name, "@")
    THEN LET parts == split(name, "/")
         IN IF Len(parts) >= 2 THEN parts[1] \o "/" \o parts[2] ELSE name
    ELSE name

cleanPackageName(name) ==
    IF name = "" THEN null
    ELSE IF startsWith(name, ".") \/ startsWith(name, "/") THEN null
    ELSE IF startsWith(name, "@")
    THEN LET parts == split(name, "/")
         IN IF Len(parts) >= 2 THEN parts[1] \o "/" \o parts[2] ELSE name
    ELSE split(name, "/")[1]

\* processPath that does what its comment says: "Normalize path (remove
\* leading ./)" before the add
processPathNormalizing(deps, locals, path) ==
    IF path = "" THEN [dependencies |-> deps, localImports |-> locals]
    ELSE IF startsWith(path, ".") \/ startsWith(path, "/")
    THEN [dependencies |-> deps,
          localImports |-> SetAdd(locals,
              IF startsWith(path, "./") THEN Slice(path, 2, Len(path)) ELSE path)]
    ELSE LET pkg == cleanPackageName(path)
         IN [dependencies |-> IF pkg # "" THEN SetAdd(deps, pkg) ELSE deps,
             localImports |-> locals]

\* processPath whose local branch adds to the wrong set
processPathWrongSet(deps, locals, path) ==
    IF path = "" THEN [dependencies |-> deps, localImports |-> locals]
    ELSE IF startsWith(path, ".") \/ startsWith(path, "/")
    THEN [dependencies |-> SetAdd(deps, path), localImports |-> locals]
    ELSE LET pkg == cleanPackageName(path)
         IN [dependencies |-> IF pkg # "" THEN SetAdd(deps, pkg) ELSE deps,
             localImports |-> locals]

\* processPath(path) on the two sets: the sets after the call
processPath(deps, locals, path) ==
    IF path = "" THEN [dependencies |-> deps, localImports |-> locals]
    ELSE IF startsWith(path, ".") \/ startsWith(path, "/")
    THEN [dependencies |-> deps, localImports |-> SetAdd(locals, path)]
    ELSE LET pkg == cleanPackageName(path)
         IN [dependencies |-> IF pkg # "" THEN SetAdd(deps, pkg) ELSE deps,
             localImports |-> locals]

\* The fragments the analysed texts are put together from.
Chunks == {
    "import React from \"react\"\n",
    "import ReactDOM from \"react-dom/client\"\n",
    "const fs = require('fs')\n",
    "import path from \"path\"\n",
    "import x from \"./a/b\"",
    "import x from \"@scope/pkg/deep\"",
    "import x from \"lodash/debounce\"",
    "import \"lodash/debounce\"\n",
    "import \"./a.css\"\n",
    "import z from '/abs/z'",
    "const L = import( './lazy')",
    "import { motion } from \"framer-motion\"\n",
    "<AnimatePresence>",
    "<motion.div/>",
    "const y = \"./y\";\n",
    "import y from '",
    "require('",
    "import s from \"@solo\"\n",
    "import",
    " from ",
    "\"",
    "\n"
}

RECURSIVE Texts(_)
\* every text of at most n fragments
Texts(n) ==
    IF n = 0 THEN {""}
    ELSE LET shorter == Texts(n - 1)
         IN shorter \cup {t \o c : t \in shorter, c \in Chunks}

\* What the history keeps of one match handed to processPath: the pass (1 is
\* the importRegex loop, 2 the sideEffectImportRegex loop), where the match
\* lies in the text, its capture group, and which set the call grew.
Logged(pass, match, r) ==
    [pass |-> pass, index |-> match.index, end |-> match.end,
     path |-> match.path,
     added |-> IF r.dependencies # dependencies THEN "dependencies"
               ELSE IF r.localImports # localImports THEN "localImports"
               ELSE "none"]

AnalyzerInit ==
    /\ code \in Texts(MaxChunks)
    /\ pc = "importLoop"
    /\ lastIndex = 0
    /\ dependencies = <<>>
    /\ localImports = <<>>
    /\ log = <<>>

\* while ((match = importRegex.exec(code)) !== null) processPath(match[1])
ImportLoop ==
    /\ pc = "importLoop"
    /\ \E match \in {importRegexExec(code, lastIndex)} :
          IF match.found
          THEN \E r \in {processPath(dependencies, localImports, match.path)} :
                  /\ dependencies' = r.dependencies
                  /\ localImports' = r.localImports
                  /\ lastIndex' = match.end
                  /\ log' = Append(log, Logged(1, match, r))
                  /\ pc' = pc
          ELSE /\ pc' = "sideEffectLoop"
               /\ lastIndex' = 0
               /\ UNCHANGED <<dependencies, localImports, log>>
    /\ UNCHANGED <<code, gvars, xvars>>

\* while ((match = sideEffectImportRegex.exec(code)) !== null) processPath(match[1])
SideEffectLoop ==
    /\ pc = "sideEffectLoop"
    /\ \E match \in {sideEffectImportRegexExec(code, lastIndex)} :
          IF match.found
          THEN \E r \in {processPath(dependencies, localImports, match.path)} :
                  /\ dependencies' = r.dependencies
                  /\ localImports' = r.localImports
                  /\ lastIndex' = match.end
                  /\ log' = Append(log, Logged(2, match, r))
                  /\ pc' = pc
          ELSE /\ pc' = "smartDetection"
               /\ lastIndex' = 0
               /\ UNCHANGED <<dependencies, localImports, log>>
    /\ UNCHANGED <<code, gvars, xvars>>

\* the implicit-dependency rule with its condition lost
smartDetectionAlways(s, deps) == SetAdd(deps, "framer-motion")

\* the implicit-dependency rule without its second marker
smartDetectionMotionOnly(s, deps) ==
    IF includes(s, "motion.") THEN SetAdd(deps, "framer-motion") ELSE deps

\* the implicit-dependency rule
smartDetection(s, deps) ==
    IF includes(s, "motion.") \/ includes(s, "AnimatePresence")
    THEN SetAdd(deps, "framer-motion") ELSE deps

SmartDetection ==
    /\ pc = "smartDetection"
    /\ dependencies' = smartDetection(code, dependencies)
    /\ pc' = "cleanUp"
    /\ UNCHANGED <<code, lastIndex, localImports, log, gvars, xvars>>

\* the deletes without the one of react-dom
cleanUpKeepsReactDom(deps) ==
    SetDelete(SetDelete(SetDelete(deps, "react"), "fs"), "path")

\* the four dependencies.delete calls
cleanUp(deps) ==
    SetDelete(SetDelete(SetDelete(SetDelete(deps, "react"), "react-dom"),
                        "fs"), "path")

\* the deletes and the return: the result is {dependencies, localImports}
CleanUp ==
    /\ pc = "cleanUp"
    /\ dependencies' = cleanUp(dependencies)
    /\ pc' = "returned"
    /\ UNCHANGED <<code, lastIndex, localImports, log, gvars, xvars>>

AnalyzerNext ==
    \/ ImportLoop
    \/ SideEffectLoop
    \/ SmartDetection
    \/ CleanUp

\* ------------------------------------------------------- generateProjectZip

\* s.endsWith(lit)
endsWith(s, lit) ==
    Len(lit) <= Len(s) /\ StartsWithAt(s, Len(s) - Len(lit), lit)

LowerCase == "abcdefghijklmnopqrstuvwxyz"
UpperCase == "ABCDEFGHIJKLMNOPQRSTUVWXYZ"
Digits == "0123456789"

CharsOf(s) == {CharAt(s, k) : k \in 0..(Len(s) - 1)}

UpperCaseLetters == CharsOf(UpperCase)

AlphaNumerics == CharsOf(LowerCase) \cup CharsOf(UpperCase) \cup CharsOf(Digits)

\* the regex class [a-zA-Z0-9]
IsAlphaNumeric(c) == c \in AlphaNumerics

\* c.toLowerCase() for one character
LowerChar(c) ==
    IF c \in UpperCaseLetters
    THEN CharAt(LowerCase, CHOOSE k \in 0..25 : CharAt(UpperCase, k) = c)
    ELSE c

LowerCaseFrom[s \in STRING, k \in Nat] ==
    IF k >= Len(s) THEN ""
    ELSE LowerChar(CharAt(s, k)) \o LowerCaseFrom[s, k + 1]

\* s.toLowerCase()
toLowerCase(s) == LowerCaseFrom[s, 0]

ReplaceSpaceRunsFrom[s \in STRING, by \in STRING, k \in Nat] ==
    IF k >= Len(s) THEN ""
    ELSE IF IsSpace(CharAt(s, k))
    THEN by \o ReplaceSpaceRunsFrom[s, by, SkipSpace[s, k]]
    ELSE CharAt(s, k) \o ReplaceSpaceRunsFrom[s, by, k + 1]

\* s.replace(/\s+/g, by): every maximal run of \s becomes one `by`
ReplaceSpaceRuns(s, by) == ReplaceSpaceRunsFrom[s, by, 0]

KeepAlphaNumericFrom[s \in STRING, k \in Nat] ==
    IF k >= Len(s) THEN ""
    ELSE (IF IsAlphaNumeric(CharAt(s, k)) THEN CharAt(s, k) ELSE "")
         \o KeepAlphaNumericFrom[s, k + 1]

\* s.replace(/[^a-zA-Z0-9]/g, '')
KeepAlphaNumeric(s) == KeepAlphaNumericFrom[s, 0]

\* s.replace(/^<lit>/, ''), lit a literal
StripPrefix(s, lit) ==
    IF startsWith(s, lit) THEN Slice(s, Len(lit), Len(s)) ELSE s

FileTypes == {"js", "jsx", "ts", "tsx", "unknown"}

\* The variants the caller passes: it passes TSX in place of UNKNOWN.
PassedFileTypes == FileTypes \ {"unknown"}

\* isTS with the test on FileType.TS dropped
isTSOnlyTsx(ft) == ft = "tsx"

isTS(ft) == ft = "ts" \/ ft = "tsx"
ext(ft) == IF isTS(ft) THEN "ts" ELSE "js"
jsxExt(ft) == IF isTS(ft) THEN "tsx" ELSE "jsx"

\* The object literal `dependencies`, in key order: <<name, version>> pairs.
BaselineDependencies == <<
    <<"react", "^19.0.0">>,
    <<"react-dom", "^19.0.0">>,
    <<"clsx", "^2.1.0">>,
    <<"tailwind-merge", "^2.2.0">>,
    <<"lucide-react", "latest">>,
    <<"framer-motion", "^11.0.0">>,
    <<"tailwindcss-animate", "^1.0.7">>,
    <<"@tailwindcss/typography", "^0.5.10">>,
    <<"@tailwindcss/forms", "^0.5.7">>,
    <<"date-fns", "latest">>,
    <<"recharts", "latest">> >>

Keys(obj) == {obj[i][1] : i \in 1..Len(obj)}

\* The properties an object literal inherits from Object.prototype: a read
\* of one of them through dependencies[dep] yields a function or an object.
ObjectPrototype ==
    {"constructor", "hasOwnProperty", "isPrototypeOf", "propertyIsEnumerable",
     "toLocaleString", "toString", "valueOf", "__proto__",
     "__defineGetter__", "__defineSetter__", "__lookupGetter__",
     "__lookupSetter__"}

\* Whether dependencies[dep] is truthy: an own key (every version is a
\* non-empty string) or an inherited property.
Truthy(obj, dep) == dep \in Keys(obj) \/ dep \in ObjectPrototype

RECURSIVE mergeDependencies(_, _)
\* config.dependencies.forEach(dep => { if (!dependencies[dep]) ... })
mergeDependencies(obj, deps) ==
    IF deps = <<>> THEN obj
    ELSE mergeDependencies(
             IF Truthy(obj, Head(deps)) THEN obj
             ELSE Append(obj, <<Head(deps), "latest">>),
             Tail(deps))

devDependencies(ft) ==
    << <<"@types/react", "^19.0.0">>,
       <<"@types/react-dom", "^19.0.0">>,
       <<"@vitejs/plugin-react", "^4.3.4">>,
       <<"vite", "latest">>,
       <<"tailwindcss", "^4.0.0">>,
       <<"@tailwindcss/postcss", "^4.0.0">>,
       <<"postcss", "^8.5.1">>,
       <<"sass", "^1.70.0">> >>
    \o (IF isTS(ft)
        THEN << <<"typescript", "^5.7.2">>, <<"@types/node", "^20.0.0">> >>
        ELSE <<>>)

\* packageJson with the name taken from the file name of the config
PackageJsonNamedAfterFile(cfg, ft) ==
    [name |-> ReplaceSpaceRuns(toLowerCase(cfg.fileName), "-"),
     private |-> TRUE,
     version |-> "0.1.0",
     type |-> "module",
     scripts |-> << <<"dev", "vite">>, <<"build", "vite build">>,
                    <<"preview", "vite preview">> >>,
     dependencies |-> mergeDependencies(BaselineDependencies, cfg.dependencies),
     devDependencies |-> devDependencies(ft)]

\* the packageJson object
PackageJson(cfg, ft) ==
    [name |-> ReplaceSpaceRuns(toLowerCase(cfg.projectName), "-"),
     private |-> TRUE,
     version |-> "0.1.0",
     type |-> "module",
     scripts |-> << <<"dev", "vite">>, <<"build", "vite build">>,
                    <<"preview", "vite preview">> >>,
     dependencies |-> mergeDependencies(BaselineDependencies, cfg.dependencies),
     devDependencies |-> devDependencies(ft)]

RECURSIVE StringifyEntries(_, _)
\* the "key": "value" lines of an object of strings, at the given indent
StringifyEntries(obj, indent) ==
    IF obj = <<>> THEN ""
    ELSE indent \o "\"" \o obj[1][1] \o "\": \"" \o obj[1][2] \o "\""
         \o (IF Len(obj) > 1 THEN "," ELSE "") \o "\n"
         \o StringifyEntries(Tail(obj), indent)

StringifyObject(obj, indent) ==
    IF obj = <<>> THEN "{}"
    ELSE "{\n" \o StringifyEntries(obj, indent \o "  ") \o indent \o "}"

\* JSON.stringify(packageJson, null, 2)
StringifyPackageJson(p) ==
    "{\n  \"name\": \"" \o p.name \o "\",\n"
    \o "  \"private\": true,\n"
    \o "  \"version\": \"" \o p.version \o "\",\n"
    \o "  \"type\": \"" \o p.type \o "\",\n"
    \o "  \"scripts\": " \o StringifyObject(p.scripts, "  ") \o ",\n"
    \o "  \"dependencies\": " \o StringifyObject(p.dependencies, "  ") \o ",\n"
    \o "  \"devDependencies\": "
    \o StringifyObject(p.devDependencies, "  ") \o "\n}"

\* The templates, each cut down to the lines that name other files.
viteConfig ==
    "\nimport { defineConfig } from 'vite'\nimport react from '@vitejs/plugin-react'\nimport path from 'path'\n"

postcssConfig == "export default { plugins: { '@tailwindcss/postcss': {} } }"

tsConfig ==
    "{\n  \"include\": [\"src\"],\n  \"references\": [{ \"path\": \"./tsconfig.node.json\" }]\n}"

tsConfigNode == "{\n  \"include\": [\"vite.config.ts\"]\n}"

\* html with the script named after ext in place of jsxExt
htmlWithExt(cfg, ft) ==
    "\n<!doctype html>\n<title>" \o cfg.projectName \o "</title>\n"
    \o "<div id=\"root\"></div>\n"
    \o "<script type=\"module\" src=\"/src/main." \o ext(ft) \o "\"></script>\n"

html(cfg, ft) ==
    "\n<!doctype html>\n<title>" \o cfg.projectName \o "</title>\n"
    \o "<div id=\"root\"></div>\n"
    \o "<script type=\"module\" src=\"/src/main." \o jsxExt(ft) \o "\"></script>\n"

mainContent ==
    "\nimport React from 'react'\nimport ReactDOM from 'react-dom/client'\nimport App from './App' \nimport './index.css'\n"

\* cssContent with a stamp that tells a first call from a later one
cssContentPerCall ==
    "\n@import \"tailwindcss\";\n"
    \o (IF blob.resolved THEN "/* regenerated */\n" ELSE "")

cssContent == "\n@import \"tailwindcss\";\n"

stylePlaceholder == "/* Placeholder style - Generated by CodeToProject */"

imagePlaceholder == "<svg xmlns=\"http://www.w3.org/2000/svg\" viewBox=\"0 0 100 100\">IMAGE</svg>"

jsonPlaceholder == "{}"

\* zip.file(name, data): JSZip keeps one entry per name, the last one written
ZipFile(fs, name, data) ==
    [n \in DOMAIN fs \cup {name} |-> IF n = name THEN data ELSE fs[n]]

\* src.file(name, data), src == zip.folder("src")
SrcFile(fs, name, data) == ZipFile(fs, "src/" \o name, data)

appFileName(ft) == "App." \o (IF isTS(ft) THEN "tsx" ELSE "jsx")

\* cleanPath with the second replace dropped
cleanPathOneReplace(importPath) == StripPrefix(importPath, "./")

\* importPath.replace(/^\.\//, '').replace(/^\//, '')
cleanPath(importPath) == StripPrefix(StripPrefix(importPath, "./"), "/")

\* lastPart.match(/\.(e1|e2|...)$/)
MatchesExtension(s, exts) == \E e \in exts : endsWith(s, "." \o e)

StyleExtensions == {"css", "scss", "sass", "less", "styl"}
ImageExtensions == {"png", "jpg", "jpeg", "svg", "gif", "webp", "ico", "bmp"}
JsonExtensions == {"json"}

\* lastPart.replace(/[^a-zA-Z0-9]/g, '') || 'Component'
componentName(last) ==
    LET n == KeepAlphaNumeric(last)
    IN IF n # "" THEN n ELSE "Component"

\* the template literal, filled with cleanPath and componentName
dummyContent(clean, name) ==
    "\nimport React from 'react';\n"
    \o "// Ghost Component generated to prevent build errors\n"
    \o "// Missing file: " \o clean \o "\n"
    \o "const " \o name \o " = (props: any) => (\n"
    \o "  <div className=\"p-4 border border-dashed border-amber-300 bg-amber-50 rounded text-center\">\n"
    \o "    <p className=\"text-amber-600 font-mono text-xs\">Missing Component: "
    \o clean \o "</p>\n"
    \o "  </div>\n);\n"
    \o "export default " \o name \o ";\n"
    \o "export const " \o name \o "Named = " \o name \o ";\n"

\* One pass of the forEach callback: the name and the data of its file() call.
ghostFile(importPath, ft) ==
    LET clean == cleanPath(importPath)
        parts == split(clean, "/")
        last == parts[Len(parts)]
        dotted == includes(last, ".")
        extension == IF dotted THEN ""
                     ELSE IF isTS(ft) THEN ".tsx" ELSE ".jsx"
    IN IF dotted /\ MatchesExtension(last, StyleExtensions)
       THEN [name |-> clean, data |-> stylePlaceholder]
       ELSE IF dotted /\ MatchesExtension(last, ImageExtensions)
       THEN [name |-> clean, data |-> imagePlaceholder]
       ELSE IF dotted /\ MatchesExtension(last, JsonExtensions)
       THEN [name |-> clean, data |-> jsonPlaceholder]
       ELSE [name |-> clean \o extension,
             data |-> dummyContent(clean, componentName(last))]

RECURSIVE forEachLocalImport(_, _, _)
\* config.localImports.forEach(...): the zip after every entry was visited
forEachLocalImport(fs, imports, ft) ==
    IF imports = <<>> THEN fs
    ELSE LET g == ghostFile(Head(imports), ft)
         IN forEachLocalImport(SrcFile(fs, g.name, g.data), Tail(imports), ft)

\* The whole call as a function of its two arguments: the files of the
\* archive it resolves to.
generateProjectZip(cfg, ft) ==
    LET one == ZipFile(<<>>, "package.json",
                       StringifyPackageJson(PackageJson(cfg, ft)))
        two == ZipFile(ZipFile(one, "vite.config." \o ext(ft), viteConfig),
                       "postcss.config." \o ext(ft), postcssConfig)
        ts == IF isTS(ft)
              THEN ZipFile(ZipFile(two, "tsconfig.json", tsConfig),
                           "tsconfig.node.json", tsConfigNode)
              ELSE two
        three == SrcFile(SrcFile(ZipFile(ts, "index.html", html(cfg, ft)),
                                 "main." \o jsxExt(ft), mainContent),
                         appFileName(ft), cfg.fileContent)
        four == forEachLocalImport(three, cfg.localImports, ft)
    IN SrcFile(four, "index.css", cssContent)

NoBlob == [resolved |-> FALSE, files |-> <<>>]
NoFiles == <<>>
NoPackageJson == [name |-> ""]

\* The local imports and the packages a config is drawn from.
ImportPaths == {"./App", "./index.css", "/a/b", "../utils",
                "./logo.png", "./data.json", "./a/b.tsx"}

DependencyLists == {<<>>, <<"lodash", "constructor">>,
                    <<"framer-motion", "@scope/pkg">>}

\* The project-name input: its initial value, a typed name, the cleared input.
ProjectNames == {"neon-app-01", "My Cool App!!", ""}

FileContents == {"export default function App() { return null }"}

FileNames == {"App.tsx", "Widget.jsx"}

\* the duplicate-free lists of at most n elements of S, as a Set lists them
RECURSIVE ListsOf(_, _)
ListsOf(S, n) ==
    IF n = 0 THEN {<<>>}
    ELSE LET shorter == ListsOf(S, n - 1)
         IN shorter \cup {Append(l, x) : l \in shorter, x \in S}

DistinctListsOf(S, n) == {l \in ListsOf(S, n) : \A i, j \in 1..Len(l) : l[i] = l[j] => i = j}

GeneratorInit ==
    /\ config \in [fileName : FileNames,
                   fileContent : FileContents,
                   projectName : ProjectNames,
                   dependencies : DependencyLists,
                   localImports : DistinctListsOf(ImportPaths, MaxImports)]
    /\ fileType \in PassedFileTypes
    /\ gpc = "packageJson"
    /\ packageJson = NoPackageJson
    /\ files = NoFiles
    /\ ghostIndex = 0
    /\ written = <<>>
    /\ blob = NoBlob

\* 1. Package.json
WritePackageJson ==
    /\ gpc = "packageJson"
    /\ packageJson' = PackageJson(config, fileType)
    /\ files' = ZipFile(files, "package.json", StringifyPackageJson(packageJson'))
    /\ written' = Append(written, "package.json")
    /\ gpc' = "configFiles"
    /\ UNCHANGED <<config, fileType, ghostIndex, blob, avars, xvars>>

\* 2. Config Files (Vite, PostCSS, TS)
WriteConfigFiles ==
    /\ gpc = "configFiles"
    /\ LET vite == "vite.config." \o ext(fileType)
           postcss == "postcss.config." \o ext(fileType)
           two == ZipFile(ZipFile(files, vite, viteConfig), postcss, postcssConfig)
       IN IF isTS(fileType)
          THEN /\ files' = ZipFile(ZipFile(two, "tsconfig.json", tsConfig),
                                   "tsconfig.node.json", tsConfigNode)
               /\ written' = written \o <<vite, postcss, "tsconfig.json",
                                          "tsconfig.node.json">>
          ELSE /\ files' = two
               /\ written' = written \o <<vite, postcss>>
    /\ gpc' = "sourceFiles"
    /\ UNCHANGED <<config, fileType, packageJson, ghostIndex, blob, avars, xvars>>

\* 3. Source Files & Index.html: index.html, src/main, the user's App file
WriteSourceFiles ==
    /\ gpc = "sourceFiles"
    /\ LET main == "main." \o jsxExt(fileType)
           app == appFileName(fileType)
       IN /\ files' = SrcFile(SrcFile(ZipFile(files, "index.html",
                                              html(config, fileType)),
                                      main, mainContent),
                              app, config.fileContent)
          /\ written' = written \o <<"index.html", "src/" \o main, "src/" \o app>>
    /\ gpc' = "ghostFiles"
    /\ UNCHANGED <<config, fileType, packageJson, ghostIndex, blob, avars, xvars>>

\* 4. Ghost File Generator: one call of the forEach callback
WriteGhostFile ==
    /\ gpc = "ghostFiles"
    /\ ghostIndex < Len(config.localImports)
    /\ LET g == ghostFile(config.localImports[ghostIndex + 1], fileType)
       IN /\ files' = SrcFile(files, g.name, g.data)
          /\ written' = Append(written, "src/" \o g.name)
    /\ ghostIndex' = ghostIndex + 1
    /\ UNCHANGED <<config, fileType, gpc, packageJson, blob, avars, xvars>>

\* 5. CSS, once the forEach has visited every entry
WriteCss ==
    /\ gpc = "ghostFiles"
    /\ ghostIndex = Len(config.localImports)
    /\ files' = SrcFile(files, "index.css", cssContent)
    /\ written' = Append(written, "src/index.css")
    /\ gpc' = "generateAsync"
    /\ UNCHANGED <<config, fileType, packageJson, ghostIndex, blob, avars, xvars>>

\* return await zip.generateAsync({ type: "blob" })
GenerateAsync ==
    /\ gpc = "generateAsync"
    /\ blob' = [resolved |-> TRUE, files |-> files]
    /\ gpc' = "returned"
    /\ UNCHANGED <<config, fileType, packageJson, files, ghostIndex, written, avars, xvars>>

\* A further call with the same arguments, once the call before it has
\* returned: a new JSZip, a new dependencies literal, a new forEach.
CallAgain ==
    /\ gpc = "returned"
    /\ gpc' = "packageJson"
    /\ packageJson' = NoPackageJson
    /\ files' = NoFiles
    /\ ghostIndex' = 0
    /\ written' = <<>>
    /\ UNCHANGED <<config, fileType, blob, avars, xvars>>

GeneratorNext ==
    \/ WritePackageJson
    \/ WriteConfigFiles
    \/ WriteSourceFiles
    \/ WriteGhostFile
    \/ WriteCss
    \/ GenerateAsync
    \/ CallAgain

\* The generator before it is called, under the analyzer's specifications.
GeneratorIdle ==
    /\ config = [fileName |-> "", fileContent |-> "", projectName |-> "",
                 dependencies |-> <<>>, localImports |-> <<>>]
    /\ fileType = "unknown"
    /\ gpc = "idle"
    /\ packageJson = NoPackageJson
    /\ files = NoFiles
    /\ ghostIndex = 0
    /\ written = <<>>
    /\ blob = NoBlob

\* The analyzer before it is called, under the generator's specification.
AnalyzerIdle ==
    /\ code = ""
    /\ pc = "idle"
    /\ lastIndex = 0
    /\ dependencies = <<>>
    /\ localImports = <<>>
    /\ log = <<>>

\* ------------------------------------------- analyzeDependencies, in one go

RECURSIVE whileImportRegex(_, _, _)
\* the first loop from lastIndex k on, r being the two Sets so far
whileImportRegex(s, k, r) ==
    LET match == importRegexExec(s, k)
    IN IF match.found
       THEN whileImportRegex(s, match.end,
                processPath(r.dependencies, r.localImports, match.path))
       ELSE r

RECURSIVE whileSideEffectImportRegex(_, _, _)
\* the second loop
whileSideEffectImportRegex(s, k, r) ==
    LET match == sideEffectImportRegexExec(s, k)
    IN IF match.found
       THEN whileSideEffectImportRegex(s, match.end,
                processPath(r.dependencies, r.localImports, match.path))
       ELSE r

\* The whole call as a function of the text: the AnalysisResult it returns.
analyzeDependencies(s) ==
    LET first == whileImportRegex(s, 0, [dependencies |-> <<>>,
                                         localImports |-> <<>>])
        second == whileSideEffectImportRegex(s, 0, first)
    IN [dependencies |-> cleanUp(smartDetection(s, second.dependencies)),
        localImports |-> second.localImports]

\* ------------------------------------------------------------------ the App

\* The texts a user pastes or uploads, and the cleared textarea.
PastedTexts == {"import x from \"./a/b\"", "<motion.div/>", ""}

\* The files a user picks: the accept attribute narrows the dialog, it does
\* not keep a file of another kind out.
PickedFiles ==
    {[name |-> "Widget.jsx", text |-> "import x from \"./a/b\""],
     [name |-> "notes.txt", text |-> "<motion.div/>"]}

\* The values the project-name input is given.
TypedProjectNames == {"neon-app-01", ""}

\* analyzeDependencies on each of the texts above
AnalysisOf ==
    [t \in PastedTexts \cup {f.text : f \in PickedFiles} |-> analyzeDependencies(t)]

NoConfig ==
    [fileContent |-> "", fileName |-> "", projectName |-> "",
     dependencies |-> <<>>, localImports |-> <<>>]

NoCall == [config |-> NoConfig, fileType |-> "unknown"]

\* downloadUrl === null
nullUrl == [null |-> TRUE, blob |-> NoCall]

\* URL.createObjectURL(blob): the URL stands for the blob, and the blob for
\* the arguments of the call that resolved to it
createObjectURL(args) == [null |-> FALSE, blob |-> args]

NoRun ==
    [pc |-> "idle", config |-> NoConfig, fileType |-> "unknown",
     alerts |-> 0, outcome |-> "none"]

\* the useState initial values
AppInit ==
    /\ ui = [activeTab |-> "upload",
             fileContent |-> "",
             fileName |-> "",
             fileType |-> "unknown",
             dependencies |-> <<>>,
             localImports |-> <<>>,
             projectName |-> "neon-app-01",
             isProcessing |-> FALSE,
             downloadUrl |-> nullUrl]
    /\ run = NoRun
    /\ reading = {}
    /\ lastCall = NoCall

\* detectFileType(name)
detectFileType(name) ==
    IF endsWith(name, ".tsx") THEN "tsx"
    ELSE IF endsWith(name, ".ts") THEN "ts"
    ELSE IF endsWith(name, ".jsx") THEN "jsx"
    ELSE IF endsWith(name, ".js") THEN "js"
    ELSE "unknown"

\* analyzeDeps(code): the three state updates
analyzeDeps(u, text) ==
    [u EXCEPT !.dependencies = AnalysisOf[text].dependencies,
              !.localImports = AnalysisOf[text].localImports,
              !.downloadUrl = nullUrl]

\* the variant passed on with the Unknown one coerced dropped
passedFileTypeAsIs(ft) == ft

\* fileType === FileType.UNKNOWN ? FileType.TSX : fileType
passedFileType(ft) == IF ft = "unknown" THEN "tsx" ELSE ft

\* the finally block left out
finallyBlockMissing(u) == u

\* finally { setIsProcessing(false) }
finallyBlock(u) == [u EXCEPT !.isProcessing = FALSE]

\* onClick={() => setActiveTab(...)}
SetActiveTab ==
    /\ \E tab \in {"upload", "paste"} : ui' = [ui EXCEPT !.activeTab = tab]
    /\ UNCHANGED <<run, reading, lastCall, avars, gvars, rvars, cvars, dvars>>

\* onChange={(e) => setProjectName(e.target.value)}
SetProjectName ==
    /\ \E name \in TypedProjectNames : ui' = [ui EXCEPT !.projectName = name]
    /\ UNCHANGED <<run, reading, lastCall, avars, gvars, rvars, cvars, dvars>>

\* handleFileChange up to await file.text(); the input is rendered under the
\* upload tab
HandleFileChange ==
    /\ ui.activeTab = "upload"
    /\ \E file \in PickedFiles : reading' = reading \cup {file}
    /\ UNCHANGED <<ui, run, lastCall, avars, gvars, rvars, cvars, dvars>>

\* handleFileChange from the await on
FileTextRead ==
    /\ \E file \in reading :
          /\ reading' = reading \ {file}
          /\ ui' = analyzeDeps([ui EXCEPT !.fileName = file.name,
                                          !.fileContent = file.text,
                                          !.fileType = detectFileType(file.name)],
                               file.text)
    /\ UNCHANGED <<run, lastCall, avars, gvars, rvars, cvars, dvars>>

\* handleTextChange; the textarea is rendered under the paste tab
HandleTextChange ==
    /\ ui.activeTab = "paste"
    /\ \E text \in PastedTexts :
          ui' = analyzeDeps(
                    IF ui.fileName = ""
                    THEN [ui EXCEPT !.fileContent = text,
                                    !.fileName = "App.tsx",
                                    !.fileType = "tsx"]
                    ELSE [ui EXCEPT !.fileContent = text],
                    text)
    /\ UNCHANGED <<run, reading, lastCall, avars, gvars, rvars, cvars, dvars>>

\* the disabled attribute of the Generate button
generateDisabled(u) ==
    \/ u.fileContent = ""
    \/ u.isProcessing
    \/ (u.activeTab = "paste" /\ u.fileName = "")

\* A click on Generate: handleGenerate up to its first await, with the
\* state of the render the handler was made in.
HandleGenerate ==
    /\ ~generateDisabled(ui)
    /\ ui.fileContent # ""
    /\ ui' = [ui EXCEPT !.isProcessing = TRUE]
    /\ run' = [pc |-> "timeout",
               config |-> [fileContent |-> ui.fileContent,
                           fileName |-> IF ui.fileName # "" THEN ui.fileName
                                        ELSE "App.tsx",
                           projectName |-> ui.projectName,
                           dependencies |-> ui.dependencies,
                           localImports |-> ui.localImports],
               fileType |-> ui.fileType,
               alerts |-> 0,
               outcome |-> "none"]
    /\ UNCHANGED <<reading, lastCall, avars, gvars, rvars, cvars, dvars>>

\* The 800 ms are over: generateProjectZip is called.
TimeoutOver ==
    /\ run.pc = "timeout"
    /\ lastCall' = [config |-> run.config, fileType |-> passedFileType(run.fileType)]
    /\ run' = [run EXCEPT !.pc = "generating"]
    /\ UNCHANGED <<ui, reading, avars, gvars, rvars, cvars, dvars>>

\* The call resolves: the URL of its blob is published.
GenerateResolved ==
    /\ run.pc = "generating"
    /\ ui' = finallyBlock([ui EXCEPT !.downloadUrl = createObjectURL(lastCall)])
    /\ run' = [NoRun EXCEPT !.outcome = "resolved"]
    /\ UNCHANGED <<reading, lastCall, avars, gvars, rvars, cvars, dvars>>

\* The call rejects (or createObjectURL throws): catch, then finally.
GenerateRejected ==
    /\ run.pc = "generating"
    /\ ui' = finallyBlock(ui)
    /\ run' = [NoRun EXCEPT !.outcome = "rejected", !.alerts = run.alerts + 1]
    /\ UNCHANGED <<reading, lastCall, avars, gvars, rvars, cvars, dvars>>

\* the promise handleGenerate awaits settles, one way or the other
GenerateSettled == GenerateResolved \/ GenerateRejected

AppNext ==
    \/ SetActiveTab
    \/ SetProjectName
    \/ HandleFileChange
    \/ FileTextRead
    \/ HandleTextChange
    \/ HandleGenerate
    \/ TimeoutOver
    \/ GenerateResolved
    \/ GenerateRejected

\* The App before it is mounted, under the specifications of the others.
AppIdle ==
    /\ ui = [activeTab |-> "upload", fileContent |-> "", fileName |-> "",
             fileType |-> "unknown", dependencies |-> <<>>,
             localImports |-> <<>>, projectName |-> "",
             isProcessing |-> FALSE, downloadUrl |-> nullUrl]
    /\ run = NoRun
    /\ reading = {}
    /\ lastCall = NoCall

\* -------------------------------------------------------------- retryRequest

\* What requestFn resolves to, and what it rejects with.
Responses == {"data", ""}
Failures == {"timeout", "offline"}

\* The initialDelay values a caller passes; 1000 is the default.
InitialDelays == {0, 1, 1000}

undefined == "undefined"

\* an entry of the trace
Requested(how, v) == [type |-> "requestFn", settled |-> how, value |-> v, ms |-> 0]
TimerSet(ms) == [type |-> "setTimeout", settled |-> "", value |-> "", ms |-> ms]
Returns(v) == [type |-> "return", settled |-> "", value |-> v, ms |-> 0]
Throws(errorCode, details) ==
    [type |-> "throw", settled |-> errorCode, value |-> details, ms |-> 0]

\* the delay left as it is
nextDelayConstant(d) == d

\* delay *= 2
nextDelay(d) == d * 2

RetryInit ==
    /\ maxRetries \in -1..RetryLimit
    /\ initialDelay \in InitialDelays
    /\ rpc = "for"
    /\ attempt = 0
    /\ delay = initialDelay
    /\ lastError = undefined
    /\ trace = <<>>

\* the loop test with attempt at 0: the body, or the throw after the loop
EnterLoop ==
    /\ rpc = "for"
    /\ IF attempt <= maxRetries
       THEN rpc' = "requestFn" /\ trace' = trace
       ELSE /\ rpc' = "thrown"
            /\ trace' = Append(trace, Throws("MAX_RETRIES_EXCEEDED", lastError))
    /\ UNCHANGED <<maxRetries, initialDelay, attempt, delay, lastError,
                   avars, gvars, uvars, cvars, dvars>>

\* return await requestFn(), fulfilled
RequestFulfilled ==
    /\ rpc = "requestFn"
    /\ \E v \in Responses :
          trace' = trace \o <<Requested("fulfilled", v), Returns(v)>>
    /\ rpc' = "returned"
    /\ UNCHANGED <<maxRetries, initialDelay, attempt, delay, lastError,
                   avars, gvars, uvars, cvars, dvars>>

\* requestFn() rejects: the catch block, and when it sets no timer, the
\* increment, the loop test and what follows it
RequestRejected ==
    /\ rpc = "requestFn"
    /\ \E error \in Failures :
          /\ lastError' = error
          /\ IF attempt < maxRetries
             THEN /\ trace' = trace \o <<Requested("rejected", error), TimerSet(delay)>>
                  /\ rpc' = "setTimeout"
                  /\ attempt' = attempt
             ELSE /\ attempt' = attempt + 1
                  /\ IF attempt + 1 <= maxRetries
                     THEN /\ rpc' = "requestFn"
                          /\ trace' = Append(trace, Requested("rejected", error))
                     ELSE /\ rpc' = "thrown"
                          /\ trace' = trace \o
                                 <<Requested("rejected", error),
                                   Throws("MAX_RETRIES_EXCEEDED", error)>>
    /\ UNCHANGED <<maxRetries, initialDelay, delay,
                   avars, gvars, uvars, cvars, dvars>>

\* the timer of the backoff fires: delay *= 2, the increment, the loop test
BackoffOver ==
    /\ rpc = "setTimeout"
    /\ delay' = nextDelay(delay)
    /\ attempt' = attempt + 1
    /\ IF attempt + 1 <= maxRetries
       THEN rpc' = "requestFn" /\ trace' = trace
       ELSE /\ rpc' = "thrown"
            /\ trace' = Append(trace, Throws("MAX_RETRIES_EXCEEDED", lastError))
    /\ UNCHANGED <<maxRetries, initialDelay, lastError,
                   avars, gvars, uvars, cvars, dvars>>

RetryNext ==
    \/ EnterLoop
    \/ RequestFulfilled
    \/ RequestRejected
    \/ BackoffOver

RetryIdle ==
    /\ maxRetries = 0
    /\ initialDelay = 0
    /\ rpc = "idle"
    /\ attempt = 0
    /\ delay = 0
    /\ lastError = undefined
    /\ trace = <<>>

\* ------------------------------------------------- CacheManager, getCached

\* new CacheManager(): ttl = 5 * 60 * 1000
ttl == 5 * 60 * 1000

\* the step of the clock
HalfTtl == ttl \div 2

Endpoints == {"/projects", "/templates"}

\* What get() resolves to: a body, and the empty string (a falsy value, as
\* 0, false and null are).
Bodies == {"rows", ""}

\* generateKey(endpoint, params) with params = null
generateKey(endpoint) == endpoint \o ":" \o "{}"

\* a value in an `if (value)` test
IsTruthy(v) == v # "" /\ v # "null"

\* this.cache.get(key) of a key that is not there, and the null get returns
NoEntry == [data |-> "null", timestamp |-> -1]

\* CacheManager.get: what it returns
CacheGetValue(c, t, endpoint) ==
    LET key == generateKey(endpoint)
    IN IF key \in DOMAIN c /\ t - c[key].timestamp < ttl
       THEN c[key].data
       ELSE "null"

\* CacheManager.get: the cache it leaves
CacheGetDeletes(c, t, endpoint) ==
    LET key == generateKey(endpoint)
    IN IF key \in DOMAIN c /\ ~(t - c[key].timestamp < ttl)
       THEN [k \in DOMAIN c \ {key} |-> c[k]]
       ELSE c

\* CacheManager.set
CacheSet(c, t, endpoint, data) ==
    LET key == generateKey(endpoint)
    IN [k \in DOMAIN c \cup {key} |->
           IF k = key THEN [data |-> data, timestamp |-> t] ELSE c[k]]

\* the entry of an endpoint and whether it is younger than ttl, as the
\* cache stands
EntryOf(endpoint) ==
    IF generateKey(endpoint) \in DOMAIN cache
    THEN cache[generateKey(endpoint)] ELSE NoEntry

Fresh(endpoint) ==
    /\ generateKey(endpoint) \in DOMAIN cache
    /\ now - cache[generateKey(endpoint)].timestamp < ttl

NothingServed ==
    [endpoint |-> "", forceRefresh |-> FALSE, fresh |-> FALSE, stored |-> "null",
     request |-> FALSE, value |-> "null", age |-> 0]

CacheInit ==
    /\ cache = <<>>
    /\ now = 0
    /\ pending = {}
    /\ served = NothingServed

\* Date.now() moves on
Tick ==
    /\ now < MaxTicks * HalfTtl
    /\ now' = now + HalfTtl
    /\ UNCHANGED <<cache, pending, served, avars, gvars, uvars, rvars, dvars>>

\* getCached(endpoint, null, {forceRefresh}) up to its return or its await
GetCached ==
    /\ \E endpoint \in Endpoints, forceRefresh \in BOOLEAN :
          LET cached == CacheGetValue(cache, now, endpoint)
              hit == IsTruthy(cached) /\ ~forceRefresh
          IN /\ cache' = CacheGetDeletes(cache, now, endpoint)
             /\ pending' = IF hit THEN pending ELSE pending \cup {endpoint}
             /\ served' = [endpoint |-> endpoint,
                           forceRefresh |-> forceRefresh,
                           fresh |-> Fresh(endpoint),
                           stored |-> EntryOf(endpoint).data,
                           request |-> ~hit,
                           value |-> cached,
                           age |-> now - EntryOf(endpoint).timestamp]
    /\ UNCHANGED <<now, avars, gvars, uvars, rvars, dvars>>

\* get() resolves: cache.set, return data
GetResolved ==
    /\ \E endpoint \in pending, data \in Bodies :
          /\ cache' = CacheSet(cache, now, endpoint, data)
          /\ pending' = pending \ {endpoint}
    /\ UNCHANGED <<now, served, avars, gvars, uvars, rvars, dvars>>

\* get() rejects: getCached rejects, the cache is left alone
GetRejected ==
    /\ \E endpoint \in pending : pending' = pending \ {endpoint}
    /\ UNCHANGED <<cache, now, served, avars, gvars, uvars, rvars, dvars>>

CacheNext ==
    \/ Tick
    \/ GetCached
    \/ GetResolved
    \/ GetRejected

\* ------------------------------------------------------------------ debounce

\* The arguments the debounced function is called with.
Arguments == {"a", "b"}

\* clearTimeout left out
clearTimeoutMissing(ts, id) == ts

\* clearTimeout(id): a timer that fired, or an id never given, clears nothing
clearTimeout(ts, id) == {t \in ts : t.id # id}

callsMade == Cardinality({i \in 1..Len(events) : events[i].type = "call"})

DebounceInit ==
    /\ wait \in 0..MaxWait
    /\ timeout = 0
    /\ timers = {}
    /\ elapsed = 0
    /\ events = <<>>

\* executedFunction(...args): clearTimeout(timeout), timeout = setTimeout(later, wait)
ExecutedFunction ==
    /\ callsMade < MaxCalls
    /\ \E args \in Arguments :
          /\ timers' = clearTimeout(timers, timeout)
                           \cup {[id |-> callsMade + 1, due |-> elapsed + wait,
                                  args |-> args]}
          /\ events' = Append(events, [type |-> "call", args |-> args,
                                       at |-> elapsed])
    /\ timeout' = callsMade + 1
    /\ UNCHANGED <<wait, elapsed, avars, gvars, uvars, rvars, cvars>>

\* a millisecond goes by; a timer that is due may still be waiting its turn
TimePasses ==
    /\ elapsed < MaxTime
    /\ elapsed' = elapsed + 1
    /\ UNCHANGED <<wait, timeout, timers, events, avars, gvars, uvars, rvars, cvars>>

\* later(): clearTimeout(timeout), func(...args)
Later ==
    /\ \E t \in timers :
          /\ elapsed >= t.due
          /\ timers' = clearTimeout(timers \ {t}, timeout)
          /\ events' = Append(events, [type |-> "func", args |-> t.args,
                                       at |-> elapsed])
    /\ UNCHANGED <<wait, timeout, elapsed, avars, gvars, uvars, rvars, cvars>>

DebounceNext ==
    \/ ExecutedFunction
    \/ TimePasses
    \/ Later

DebounceIdle ==
    /\ wait = 0
    /\ timeout = 0
    /\ timers = {}
    /\ elapsed = 0
    /\ events = <<>>

\* ------------------------------------------------------------ specifications

\* analyzeDependencies on every text of the bounded set
Init ==
    AnalyzerInit /\ GeneratorIdle /\ AppIdle /\ RetryIdle /\ CacheInit /\ DebounceIdle

Next == AnalyzerNext

Spec == Init /\ [][Next]_vars

\* The same, run to completion: the function body is straight-line code and
\* two loops, and nothing but the call itself takes its steps.
FairSpec == Spec /\ WF_vars(Next)

\* generateProjectZip on every config of the bounded set
GenInit ==
    GeneratorInit /\ AnalyzerIdle /\ AppIdle /\ RetryIdle /\ CacheInit /\ DebounceIdle

GenNext == GeneratorNext

GenSpec == GenInit /\ [][GenNext]_vars

\* the App from its mount on, under every order of the user's actions
AppSpecInit ==
    AppInit /\ AnalyzerIdle /\ GeneratorIdle /\ RetryIdle /\ CacheInit /\ DebounceIdle

AppSpec == AppSpecInit /\ [][AppNext]_vars

\* The same, with the timer of handleGenerate firing and the promise of
\* generateProjectZip settling: a timer set is a timer that fires, and an
\* async function that returns or throws settles its promise.
AppFairSpec ==
    AppSpec /\ WF_vars(TimeoutOver) /\ WF_vars(GenerateSettled)

\* one call of retryRequest
RetrySpecInit ==
    RetryInit /\ AnalyzerIdle /\ GeneratorIdle /\ AppIdle /\ CacheInit /\ DebounceIdle

RetrySpec == RetrySpecInit /\ [][RetryNext]_vars

\* the exported cache and the calls of getCached
CacheSpecInit ==
    CacheInit /\ AnalyzerIdle /\ GeneratorIdle /\ AppIdle /\ RetryIdle /\ DebounceIdle

CacheSpec == CacheSpecInit /\ [][CacheNext]_vars

\* one function returned by debounce and the calls made to it
DebounceSpecInit ==
    DebounceInit /\ AnalyzerIdle /\ GeneratorIdle /\ AppIdle /\ RetryIdle /\ CacheInit

DebounceSpec == DebounceSpecInit /\ [][DebounceNext]_vars

\* -------------------------------------------------------------- the claims

Returned == pc = "returned"

Count(seq, x) == Cardinality({i \in 1..Len(seq) : seq[i] = x})

NoDuplicates(seq) == \A i, j \in 1..Len(seq) : seq[i] = seq[j] => i = j

\* where lit occurs in s
Occurrences(s, lit) == {k \in 0..(Len(s) - Len(lit)) : StartsWithAt(s, k, lit)}

IsLocal(path) == startsWith(path, ".") \/ startsWith(path, "/")

Min(S) == CHOOSE m \in S : \A n \in S : m <= n

\* the text has no import-like token
NoImportToken == ~includes(code, "import") /\ ~includes(code, "require")

HasMarker == includes(code, "motion.") \/ includes(code, "AnimatePresence")

\* With stmt at index k of the text: a match of the importRegex loop ends on
\* the quote that opens stmt's path, taking it for its own closing quote.
QuoteTaken(stmt, k) ==
    \E i \in 1..Len(log) :
        log[i].pass = 1 /\ log[i].end = k + NextQuote[stmt, 0] + 1

\* the matches that refer to the local import l, to the package d
LocalRefs(l) == {i \in 1..Len(log) : log[i].path = l}
PackageRefs(d) ==
    {i \in 1..Len(log) : ~IsLocal(log[i].path) /\ cleanPackageName(log[i].path) = d}

\* where in the text the first of these matches ends
FirstInText(refs) == Min({log[i].end : i \in refs})

AppPath == "src/" \o appFileName(fileType)

\* C1: once generateProjectZip has written the user's App file, src/App.tsx
\* (typed) or src/App.jsx (untyped) holds config.fileContent to the end of
\* the run and in the archive returned, whatever config.localImports is.
C1_AppVerbatim ==
    /\ gpc \in {"ghostFiles", "generateAsync"} => files[AppPath] = config.fileContent
    /\ gpc = "returned" => blob.files[AppPath] = config.fileContent

\* C2: a run in which two file() calls name the same path does not resolve
\* to an archive.
C2_CollisionFails ==
    gpc = "returned" /\ ~NoDuplicates(written) => ~blob.resolved

\* C3: the dependencies returned hold none of react, react-dom, fs, path.
C3_NoCorePackages ==
    Returned => Range(dependencies) \cap {"react", "react-dom", "fs", "path"} = {}

C3_Witness ==
    /\ Returned
    /\ \E i \in 1..Len(log) :
           log[i].path = "react-dom/client" /\ log[i].added = "dependencies"

\* C4 as claimed: a text with no import and no require yields two empty
\* sequences.
C4_NoTokenBothEmpty ==
    Returned /\ NoImportToken => dependencies = <<>> /\ localImports = <<>>

\* C4 as amended: a text with no import and no require yields no local
\* import, and no dependency but framer-motion, which it yields exactly when
\* the text holds one of the markers "motion." and "AnimatePresence".
C4_NoTokenOnlyMarker ==
    Returned /\ NoImportToken =>
        /\ localImports = <<>>
        /\ dependencies = IF HasMarker THEN <<"framer-motion">> ELSE <<>>

C4_Witness ==
    /\ Returned /\ NoImportToken /\ ~HasMarker
    /\ includes(code, "\"")
    /\ dependencies = <<>> /\ localImports = <<>>

Stmt5 == "import x from \"./a/b\""

\* the call processPath("./a/b") never grows dependencies
C5_AddsNoDependency ==
    \A i \in 1..Len(log) : log[i].path = "./a/b" => log[i].added # "dependencies"

Stmt6Scoped == "import x from \"@scope/pkg/deep\""
Stmt6Deep == "import x from \"lodash/debounce\""

\* an element starting with @ has at most two segments, any other exactly one
C6_RootsOnly ==
    \A d \in Range(dependencies) :
        IF startsWith(d, "@") THEN Len(split(d, "/")) <= 2
        ELSE Len(split(d, "/")) = 1

\* C6 as claimed: whatever surrounds them, import x from "@scope/pkg/deep"
\* yields "@scope/pkg" and import x from "lodash/debounce" yields "lodash",
\* and every dependency is an installable root.
C6_NormalizedAlways ==
    Returned =>
        /\ includes(code, Stmt6Scoped) => "@scope/pkg" \in Range(dependencies)
        /\ includes(code, Stmt6Deep) => "lodash" \in Range(dependencies)
        /\ "@scope/pkg/deep" \notin Range(dependencies)
        /\ C6_RootsOnly

\* C6 as amended: the same, for every text that holds the statement at a
\* place where no earlier import/require match ends on the quote that opens
\* the statement's path.
C6_Normalized ==
    Returned =>
        /\ \A k \in Occurrences(code, Stmt6Scoped) :
               ~QuoteTaken(Stmt6Scoped, k) => "@scope/pkg" \in Range(dependencies)
        /\ \A k \in Occurrences(code, Stmt6Deep) :
               ~QuoteTaken(Stmt6Deep, k) => "lodash" \in Range(dependencies)
        /\ "@scope/pkg/deep" \notin Range(dependencies)
        /\ C6_RootsOnly

C6_Witness ==
    /\ Returned
    /\ includes(code, Stmt6Scoped) /\ includes(code, Stmt6Deep)
    /\ dependencies = <<"@scope/pkg", "lodash">>

\* C7 as claimed: neither sequence has duplicates, and each lists its
\* elements in the order in which they first occur in the text.
C7_TextOrder ==
    Returned =>
        /\ NoDuplicates(dependencies) /\ NoDuplicates(localImports)
        /\ \A i, j \in 1..Len(localImports) :
               i < j => FirstInText(LocalRefs(localImports[i]))
                        < FirstInText(LocalRefs(localImports[j]))
        /\ \A i, j \in 1..Len(dependencies) :
               /\ i < j
               /\ PackageRefs(dependencies[i]) # {}
               /\ PackageRefs(dependencies[j]) # {}
               => FirstInText(PackageRefs(dependencies[i]))
                  < FirstInText(PackageRefs(dependencies[j]))

\* C7 as amended: neither sequence has duplicates, and each lists its
\* elements in the order in which the scan first meets them: the matches of
\* the import/require pass in text order, then the matches of the side-effect
\* pass in text order, then framer-motion if only the marker rule adds it.
C7_ScanOrder ==
    Returned =>
        /\ NoDuplicates(dependencies) /\ NoDuplicates(localImports)
        /\ \A a, b \in 1..Len(log) :
               a < b => \/ log[a].pass < log[b].pass
                        \/ log[a].pass = log[b].pass /\ log[a].end <= log[b].index
        /\ \A i, j \in 1..Len(localImports) :
               i < j => Min(LocalRefs(localImports[i]))
                        < Min(LocalRefs(localImports[j]))
        /\ \A i, j \in 1..Len(dependencies) :
               i < j => /\ PackageRefs(dependencies[i]) # {}
                        /\ PackageRefs(dependencies[j]) # {} =>
                               Min(PackageRefs(dependencies[i]))
                               < Min(PackageRefs(dependencies[j]))

\* a side-effect import that stands in the text before a binding import
C7_Witness ==
    /\ Returned
    /\ Len(localImports) = 2
    /\ FirstInText(LocalRefs(localImports[1]))
       > FirstInText(LocalRefs(localImports[2]))

\* C8: every local import starts with "." or "/", no dependency does, and
\* the two outputs share no element.
C8_Disjoint ==
    Returned =>
        /\ \A l \in Range(localImports) : IsLocal(l)
        /\ \A d \in Range(dependencies) : ~IsLocal(d)
        /\ Range(localImports) \cap Range(dependencies) = {}

C8_Witness ==
    /\ Returned
    /\ localImports # <<>> /\ dependencies # <<>>
    /\ \E i \in 1..Len(log) : startsWith(log[i].path, "/")

\* C9: a text that holds "AnimatePresence" or "motion." yields framer-motion
\* exactly once, with or without an import of it.
C9_FramerMotionOnce ==
    Returned /\ HasMarker => Count(dependencies, "framer-motion") = 1

C9_Witness ==
    /\ Returned
    /\ includes(code, "AnimatePresence") /\ ~includes(code, "motion.")
    /\ log = <<>>
    /\ dependencies = <<"framer-motion">>

\* C10: every pass of either loop that finds a match moves lastIndex forward,
\* within the text, and the call returns.
\* a pass of a loop that found a match: the loop goes on
LoopPass == pc \in {"importLoop", "sideEffectLoop"} /\ pc' = pc

C10_Total ==
    /\ [][LoopPass => (lastIndex' > lastIndex /\ lastIndex' <= Len(code))]_vars
    /\ <>Returned

C10_Witness ==
    /\ Returned
    /\ \E i, j \in 1..Len(log) : i < j /\ log[i].pass = 1 /\ log[j].pass = 2

\* ------------------------------------------- the claims about the manifest

\* the manifest object of the call under way has been built
ManifestBuilt == gpc \notin {"idle", "packageJson"}

Typed == fileType \in {"ts", "tsx"}

\* lit occurs in s
Contains(s, lit) == Occurrences(s, lit) # {}

SlugChars == CharsOf(LowerCase) \cup CharsOf(Digits) \cup {"-"}

\* the version the object obj gives the key k
VersionOf(obj, k) == obj[CHOOSE i \in 1..Len(obj) : obj[i][1] = k][2]

\* C11: the name field of the manifest holds lowercase letters, digits and
\* hyphens only, whatever config.projectName is.
C11_NameIsSlug ==
    ManifestBuilt =>
        \A k \in 0..(Len(packageJson.name) - 1) :
            CharAt(packageJson.name, k) \in SlugChars

\* C12: the name field of the manifest is not empty, whatever the
\* project-name input held when the generation was started.
C12_NameNonEmpty ==
    ManifestBuilt => packageJson.name # ""

\* C13: the archive returned holds tsconfig.json and tsconfig.node.json and
\* the devDependencies of its manifest hold typescript when the variant is
\* ts or tsx; when it is js or jsx, it holds none of the three.
C13_TypeScriptIffTyped ==
    gpc = "returned" =>
        LET tree == DOMAIN blob.files
            dev == Keys(packageJson.devDependencies)
        IN /\ blob.files["package.json"] = StringifyPackageJson(packageJson)
           /\ Typed => /\ {"tsconfig.json", "tsconfig.node.json"} \subseteq tree
                       /\ "typescript" \in dev
           /\ ~Typed => /\ {"tsconfig.json", "tsconfig.node.json"} \cap tree = {}
                        /\ "typescript" \notin dev

C13_Witness ==
    /\ gpc = "returned"
    /\ fileType = "ts"
    /\ "tsconfig.node.json" \in DOMAIN blob.files
    /\ Contains(blob.files["package.json"], "\"typescript\": \"^5.7.2\"")

\* C14: for the variants js and jsx, no key of the manifest's
\* devDependencies is an @types/ package.
C14_TypesOnlyTyped ==
    ManifestBuilt /\ ~Typed =>
        \A k \in Keys(packageJson.devDependencies) : ~startsWith(k, "@types/")

\* C15: every entry of config.dependencies is a key of the manifest's
\* dependencies, with the version "latest" when the baseline does not hold
\* it; every baseline key keeps its baseline version.
C15_MergeComplete ==
    ManifestBuilt =>
        /\ \A i \in 1..Len(config.dependencies) :
               LET dep == config.dependencies[i]
               IN /\ dep \in Keys(packageJson.dependencies)
                  /\ dep \notin Keys(BaselineDependencies) =>
                         VersionOf(packageJson.dependencies, dep) = "latest"
        /\ \A b \in Keys(BaselineDependencies) :
               /\ b \in Keys(packageJson.dependencies)
               /\ VersionOf(packageJson.dependencies, b)
                      = VersionOf(BaselineDependencies, b)

\* --------------------------------------- the claims about the generated tree

\* an entry of localImports with its leading ./ or / taken off
Stripped(p) ==
    IF startsWith(p, "./") THEN Slice(p, 2, Len(p))
    ELSE IF startsWith(p, "/") THEN Slice(p, 1, Len(p))
    ELSE p

\* the final path segment of an entry
FinalSegment(p) ==
    LET parts == split(Stripped(p), "/") IN parts[Len(parts)]

ComponentExtension == IF Typed THEN ".tsx" ELSE ".jsx"

\* the identifier the final segment of an entry gives
Identifier(p) ==
    LET n == KeepAlphaNumeric(FinalSegment(p))
    IN IF n = "" THEN "Component" ELSE n

\* the place in the tree of the file that stands for an entry
PlaceOf(p) ==
    "src/" \o Stripped(p)
    \o (IF includes(FinalSegment(p), ".") THEN "" ELSE ComponentExtension)

\* C16: for every entry of localImports whose final segment has no dot, the
\* archive returned holds at src/<entry> + .tsx (typed) or .jsx a component
\* named by the alphanumeric characters of the final segment, exported as
\* default and as <name>Named.
C16_ComponentFile ==
    blob.resolved =>
        \A i \in 1..Len(config.localImports) :
            LET p == config.localImports[i]
                f == "src/" \o Stripped(p) \o ComponentExtension
                id == Identifier(p)
            IN ~includes(FinalSegment(p), ".") =>
                   /\ f \in DOMAIN blob.files
                   /\ Contains(blob.files[f], "const " \o id \o " = (")
                   /\ Contains(blob.files[f], "export default " \o id \o ";\n")
                   /\ Contains(blob.files[f],
                               "export const " \o id \o "Named = " \o id \o ";\n")

\* C17: for every entry of localImports that ends in .css, the archive
\* returned holds the placeholder stylesheet at src/<entry>.
C17_StylePlaceholder ==
    blob.resolved =>
        \A i \in 1..Len(config.localImports) :
            LET p == config.localImports[i]
            IN endsWith(p, ".css") =>
                   /\ "src/" \o Stripped(p) \in DOMAIN blob.files
                   /\ blob.files["src/" \o Stripped(p)] = stylePlaceholder

\* C18: for every entry of localImports the archive returned holds a file
\* at src/<entry with its leading ./ or / taken off>, with the component
\* extension appended exactly when the final segment has no dot.
C18_EveryImportHasFile ==
    blob.resolved =>
        \A i \in 1..Len(config.localImports) :
            PlaceOf(config.localImports[i]) \in DOMAIN blob.files

C18_Witness ==
    /\ blob.resolved
    /\ fileType = "jsx"
    /\ config.localImports = <<"./a/b.tsx", "/a/b">>
    /\ {"src/a/b.tsx", "src/a/b.jsx"} \subseteq DOMAIN blob.files

C20_EntryChain ==
    blob.resolved =>
        LET x == IF Typed THEN "tsx" ELSE "jsx"
            e == IF Typed THEN "ts" ELSE "js"
            o == IF Typed THEN "js" ELSE "ts"
            tree == DOMAIN blob.files
        IN /\ "index.html" \in tree
           /\ Contains(blob.files["index.html"],
                       "src=\"/src/main." \o x \o "\"")
           /\ {"src/main." \o x, "src/App." \o x} \subseteq tree
           /\ {"vite.config." \o e, "postcss.config." \o e} \subseteq tree
           /\ {"vite.config." \o o, "postcss.config." \o o} \cap tree = {}

C20_Witness ==
    /\ blob.resolved
    /\ fileType = "js"
    /\ {"src/main.jsx", "src/App.jsx", "vite.config.js"} \subseteq DOMAIN blob.files
    /\ Contains(blob.files["index.html"], "/src/main.jsx")

C22_ReadmeIncluded ==
    blob.resolved => "README.md" \in DOMAIN blob.files

\* a path has a segment ".."
HasParentSegment(path) == ".." \in Range(split(path, "/"))

\* C26: no file() call of the ghost file generator names a path with a ".."
\* segment: every ghost file lies inside src/.
C26_GhostInsideSrc ==
    \A i \in 1..Len(written) :
        startsWith(written[i], "src/") => ~HasParentSegment(written[i])

\* C27: a ghost component written under the extension .jsx has no type
\* annotation on its props parameter, and no ghost component's identifier
\* begins with a digit.
C27_GhostValidSource ==
    \A n \in DOMAIN files :
        Contains(files[n], "// Ghost Component generated") =>
            /\ endsWith(n, ".jsx") => ~Contains(files[n], "(props: any)")
            /\ ~\E d \in CharsOf(Digits) : Contains(files[n], "const " \o d)

\* ------------------------------------------------- the claims about the App

\* C23: whenever downloadUrl is not null, the archive behind it was
\* generated from the fileContent the App holds now.
C23_DownloadIsCurrent ==
    ~ui.downloadUrl.null =>
        ui.downloadUrl.blob.config.fileContent = ui.fileContent

\* C24: generateProjectZip is never called with the variant unknown nor
\* with an empty fileContent: a run passes tsx in place of unknown, and no
\* run starts while fileContent is empty.
C24_NeverUnknownNorEmpty ==
    /\ [](/\ lastCall # NoCall =>
               /\ lastCall.fileType # "unknown"
               /\ lastCall.config.fileContent # ""
          /\ run.pc = "generating" =>
               lastCall.fileType = (IF run.fileType = "unknown" THEN "tsx"
                                    ELSE run.fileType)
          /\ run.pc # "idle" => run.config.fileContent # "")
    /\ [][ui.fileContent = "" /\ run.pc = "idle" => run'.pc = "idle"]_vars

C24_Witness ==
    /\ run.pc = "generating"
    /\ run.fileType = "unknown"
    /\ lastCall.fileType = "tsx"
    /\ lastCall.config.fileName = "notes.txt"

\* C25: a run whose generateProjectZip call rejects leaves downloadUrl as it
\* was, has alerted once and has set isProcessing to false; and isProcessing,
\* once true, becomes false again.
C25_RejectionHandled ==
    /\ [][run.pc = "generating" /\ run'.pc = "idle" /\ run'.outcome = "rejected" =>
              /\ ui'.downloadUrl = ui.downloadUrl
              /\ run'.alerts = 1
              /\ ~ui'.isProcessing]_vars
    /\ [](run.pc = "idle" => ~ui.isProcessing)
    /\ (ui.isProcessing ~> ~ui.isProcessing)

C25_Witness ==
    /\ run.pc = "idle"
    /\ run.outcome = "rejected"
    /\ run.alerts = 1
    /\ ~ui.isProcessing
    /\ ui.downloadUrl.null
    /\ lastCall.config.fileContent = ui.fileContent

\* ------------------------------------------- the claims about the API client

RequestEvents == {i \in 1..Len(trace) : trace[i].type = "requestFn"}
TimerEvents == {i \in 1..Len(trace) : trace[i].type = "setTimeout"}

RECURSIVE PowerOfTwo(_)
PowerOfTwo(n) == IF n = 0 THEN 1 ELSE 2 * PowerOfTwo(n - 1)

\* how many of the first i entries of the trace are timers
TimersUpTo(i) == Cardinality({j \in TimerEvents : j <= i})

\* C28: retryRequest calls requestFn at most maxRetries + 1 times and
\* returns the first fulfilled result at once; before the k-th retry, and
\* only there, it waits initialDelay * 2^(k-1); when every attempt has
\* rejected it throws MAX_RETRIES_EXCEEDED with the last error, without a
\* wait after the last attempt.
C28_RetryBackoff ==
    /\ Cardinality(RequestEvents) <= (IF maxRetries >= 0 THEN maxRetries + 1 ELSE 0)
    /\ \A i \in RequestEvents :
           /\ trace[i].settled = "fulfilled" =>
                  /\ Len(trace) = i + 1
                  /\ trace[i + 1] = Returns(trace[i].value)
                  /\ rpc = "returned"
           /\ i > 1 => trace[i - 1].type = "setTimeout"
    /\ \A i \in TimerEvents :
           /\ trace[i].ms = initialDelay * PowerOfTwo(TimersUpTo(i) - 1)
           /\ i > 1 /\ trace[i - 1].type = "requestFn"
           /\ trace[i - 1].settled = "rejected"
           /\ i < Len(trace) => trace[i + 1].type = "requestFn"
    /\ rpc = "returned" => trace[Len(trace)].type = "return"
    /\ rpc = "thrown" =>
           /\ trace[Len(trace)].type = "throw"
           /\ trace[Len(trace)].settled = "MAX_RETRIES_EXCEEDED"
           /\ \A i \in RequestEvents : trace[i].settled = "rejected"
           /\ maxRetries >= 0 =>
                  /\ Cardinality(RequestEvents) = maxRetries + 1
                  /\ Cardinality(TimerEvents) = maxRetries
                  /\ trace[Len(trace) - 1].type = "requestFn"
                  /\ trace[Len(trace)].value = trace[Len(trace) - 1].value

C28_Witness ==
    /\ rpc = "thrown"
    /\ maxRetries = 2
    /\ initialDelay = 1000
    /\ Len(trace) = 6
    /\ trace[2].ms = 1000 /\ trace[4].ms = 2000
    /\ trace[5].value = "offline" /\ trace[6].value = "offline"

\* C29: a getCached call that finds an entry younger than ttl, and is not
\* told to refresh, makes no request and returns the data stored, whatever
\* they are; any other call makes the request; and what CacheManager.get
\* hands out is never as old as ttl.
C29_FreshEntryServed ==
    served.endpoint # "" =>
        /\ served.fresh /\ ~served.forceRefresh =>
               ~served.request /\ served.value = served.stored
        /\ ~(served.fresh /\ ~served.forceRefresh) => served.request
        /\ served.value # "null" => served.age < ttl

\* ------------------------------------------------ the claims about debounce

\* C30: every invocation of func follows, with nothing between them, a call
\* made at least wait ms before it, and has that call's arguments; a burst
\* of calls that is over has been followed by one invocation, and a burst
\* still under way has one timer, that of its last call.
C30_OncePerBurst ==
    /\ \A i \in 1..Len(events) :
           events[i].type = "func" =>
               /\ i > 1
               /\ events[i - 1].type = "call"
               /\ events[i - 1].args = events[i].args
               /\ events[i].at - events[i - 1].at >= wait
    /\ Cardinality(timers) <= 1
    /\ timers = {} /\ events # <<>> => events[Len(events)].type = "func"
    /\ \A t \in timers :
           /\ events[Len(events)].type = "call"
           /\ events[Len(events)].args = t.args
           /\ t.due = events[Len(events)].at + wait

C30_Witness ==
    /\ wait = 2
    /\ Len(events) = 4
    /\ events[1].type = "call" /\ events[1].args = "a"
    /\ events[2].type = "call" /\ events[2].args = "b" /\ events[2].at = 1
    /\ events[3].type = "func" /\ events[3].args = "b"
    /\ events[4].type = "call"

====
